---- MODULE Spec2Model ----
(***************************************************************************)
(* STM32MP bootloader signing tools: stm32-sign.py (local PEM key) and     *)
(* stm32-sign-pkcs11.py (key held by a PKCS#11 token).                     *)
(*                                                                         *)
(* An image buffer is modelled at the granularity of the struct format     *)
(* '<4s64s10I64s83xB': one cell per header field (15 cells, 256 bytes),    *)
(* followed by one cell per payload byte.  A buffer shorter than 256 bytes *)
(* is a sequence of fewer than 15 cells.                                   *)
(*                                                                         *)
(* SHA-256 and ECDSA are symbolic: a digest is determined by exactly the   *)
(* bytes hashed, a signature by exactly the key and digest it was made     *)
(* with.                                                                   *)
(***************************************************************************)
EXTENDS Integers, Sequences, FiniteSets, TLC

VARIABLES
    image,      \* the caller's buffer (bytearray `data` / bytes read from file)
    pre,        \* the buffer as it was when the last call started
    call,       \* the last call: tool, op, key, outcome
    crypto,     \* whether verifier.verify() was invoked in the last verify call
    signed,     \* provenance of the buffer: st is "raw", "signed" (left by a
                \* successful sign, by which tool and key) or "tampered"
    pc,         \* position inside a pkcs11 call: "idle" | "open" | "body" | "exit"
    session     \* PKCS#11 session: "None" | "Open" | "InUse" | "Closed"

vars == <<image, pre, call, crypto, signed, pc, session>>

----------------------------------------------------------------------------
(* Bounds of the model *)

MaxPayload == 1

(* Header layout, from the struct format string *)

HeaderSize == 256
DigestStart == 72
SignatureStart == 4
SignatureEnd == 68

\* byte offset of every field of '<4s64s10I64s83xB', in order
FieldOffsets == <<0, 4, 68, 72, 76, 80, 84, 88, 92, 96, 100, 104, 108, 172, 255>>

HeaderCells == Len(FieldOffsets)

\* the cell that starts at byte offset off (payload bytes are one cell each)
CellAt(off) ==
    IF off >= HeaderSize THEN HeaderCells + 1 + (off - HeaderSize)
    ELSE CHOOSE i \in 1..HeaderCells : FieldOffsets[i] = off

\* len(image) in bytes
ByteLen(img) ==
    IF Len(img) >= HeaderCells THEN HeaderSize + (Len(img) - HeaderCells)
    ELSE FieldOffsets[Len(img) + 1]

\* (variant) the slice stops at the end of the header: image[a:0x100]
SliceFrom_header_only(img, a) == SubSeq(img, CellAt(a), HeaderCells)

\* image[a:] and image[a:b] for offsets on cell boundaries
SliceFrom(img, a) == SubSeq(img, CellAt(a), Len(img))
Splice(img, a, b, val) ==
    SubSeq(img, 1, CellAt(a) - 1) \o <<val>> \o SubSeq(img, CellAt(b), Len(img))

----------------------------------------------------------------------------
(* Keys and symbolic cryptography *)

P256 == "NIST P-256"
P384 == "NIST P-384"

\* d: private scalar, Q: the public point as raw X||Y bytes.  A P-256 point
\* is 64 bytes and fits the header's ecdsa_pubkey field; a P-384 point is 96
\* bytes, a value (13) that no 64-byte header field holds.
Keys == { [curve |-> P256, d |-> 1, Q |-> 11],
          [curve |-> P256, d |-> 2, Q |-> 12],
          [curve |-> P384, d |-> 3, Q |-> 13] }

NoKey == [curve |-> "none", d |-> 0, Q |-> 0]

NoDigest == [sha256 |-> <<>>]
ZeroSig == [Q |-> 0, digest |-> NoDigest]

SHA256(bytes) == [sha256 |-> bytes]

\* signatory.sign(sha) / privkey.sign(sha, mechanism=ECDSA)
Sign(key, digest) == [Q |-> key.Q, digest |-> digest]

\* verifier.verify(sha, signature) does not raise ValueError
Verifies(key, digest, sig) == sig.Q = key.Q /\ sig.digest = digest

----------------------------------------------------------------------------
(* Outcomes of a call *)

Ret(v) == [kind |-> "return", ret |-> v, exc |-> "none"]
Raise(e) == [kind |-> "raise", ret |-> 0, exc |-> e]
NoOutcome == [kind |-> "none", ret |-> 0, exc |-> "none"]

NoCall == [tool |-> "none", op |-> "none", key |-> NoKey, out |-> NoOutcome]

----------------------------------------------------------------------------
(* stm32-sign.py *)

\* struct.unpack(fmt, image[0:256]): the 14 values of the format (83x yields none)
StructUnpack(img) == SubSeq(img, 1, 13) \o <<img[15]>>

get_raw_pubkey(key) == key.Q

unpack_header(img) ==
    IF ByteLen(img) < HeaderSize THEN [error |-> "struct.error"]
    ELSE LET fields == StructUnpack(img)
             first == [ error        |-> "none",
                        magic        |-> fields[1],
                        signature    |-> fields[2],
                        checksum     |-> fields[3],
                        hdr_version  |-> fields[4],
                        length       |-> fields[5],
                        entry_addr   |-> fields[6],
                        load_addr    |-> fields[8],
                        option_flags |-> fields[11],
                        ecdsa_algo   |-> fields[12],
                        ecdsa_pubkey |-> fields[13] ]
         IN  \* stm32['hdr_version'] is assigned a second time, from fields[9]
             [first EXCEPT !.hdr_version = fields[10]]

repack_header(img, stm32) ==
    << stm32.magic,
       stm32.signature,
       stm32.checksum,
       stm32.hdr_version,
       stm32.length,
       stm32.entry_addr,
       0,
       stm32.load_addr,
       0,
       stm32.hdr_version,
       stm32.option_flags,
       stm32.ecdsa_algo,
       stm32.ecdsa_pubkey,
       0,
       0 >> \o SubSeq(img, HeaderCells + 1, Len(img))

p256_names == {"NIST P-256", "p256", "P-256", "prime256v1", "secp256r1"}
brainpool_names == {}

key_algorithm(key) ==
    IF key.curve \in p256_names THEN Ret(1)
    ELSE IF key.curve \in brainpool_names THEN Ret(2)
    ELSE Raise("ValueError")

\* (variant) verify_signature without the comparison of the embedded key
verify_signature_no_key_check(img, key) ==
    LET hdr == unpack_header(img) IN
    IF hdr.error # "none" THEN [out |-> Raise(hdr.error), crypto |-> FALSE]
    ELSE LET sha == SHA256(SliceFrom(img, DigestStart)) IN
         IF Verifies(key, sha, hdr.signature)
         THEN [out |-> Ret(0), crypto |-> TRUE]
         ELSE [out |-> Ret(2), crypto |-> TRUE]

\* the result of verify_signature: its outcome and whether verifier.verify ran
verify_signature(img, key) ==
    LET hdr == unpack_header(img) IN
    IF hdr.error # "none" THEN [out |-> Raise(hdr.error), crypto |-> FALSE]
    ELSE IF get_raw_pubkey(key) # hdr.ecdsa_pubkey
         THEN [out |-> Ret(1), crypto |-> FALSE]
    ELSE LET sha == SHA256(SliceFrom(img, DigestStart)) IN
         IF Verifies(key, sha, hdr.signature)
         THEN [out |-> Ret(0), crypto |-> TRUE]
         ELSE [out |-> Ret(2), crypto |-> TRUE]

\* (variant) sign_image hashing the buffer before repack_header has run
sign_image_digest_before_repack(img, key) ==
    LET stm32 == unpack_header(img) IN
    IF stm32.error # "none" THEN [image |-> img, out |-> Raise(stm32.error)]
    ELSE IF stm32.magic # "STM2" THEN [image |-> img, out |-> Ret(-1)]
    ELSE IF key_algorithm(key).kind = "raise"
         THEN [image |-> img, out |-> key_algorithm(key)]
    ELSE LET hdr == [stm32 EXCEPT !.ecdsa_pubkey = get_raw_pubkey(key),
                                  !.ecdsa_algo = key_algorithm(key).ret,
                                  !.option_flags = 0]
             sha == SHA256(SliceFrom(img, DigestStart))
             packed == repack_header(img, hdr)
             spliced == Splice(packed, SignatureStart, SignatureEnd, Sign(key, sha))
         IN  [image |-> spliced, out |-> Ret(0)]

\* (variant) sign_image writing the header before key_algorithm is asked
sign_image_repack_first(img, key) ==
    LET stm32 == unpack_header(img) IN
    IF stm32.error # "none" THEN [image |-> img, out |-> Raise(stm32.error)]
    ELSE IF stm32.magic # "STM2" THEN [image |-> img, out |-> Ret(-1)]
    ELSE LET early == repack_header(img, [stm32 EXCEPT
                          !.ecdsa_pubkey = get_raw_pubkey(key), !.option_flags = 0])
         IN
         IF key_algorithm(key).kind = "raise"
         THEN [image |-> early, out |-> key_algorithm(key)]
         ELSE LET packed == repack_header(early, [unpack_header(early) EXCEPT
                                !.ecdsa_algo = key_algorithm(key).ret])
                  sha == SHA256(SliceFrom(packed, DigestStart))
              IN  [image |-> Splice(packed, SignatureStart, SignatureEnd, Sign(key, sha)),
                   out |-> Ret(0)]

\* the result of sign_image: the buffer it leaves and its outcome
sign_image(img, key) ==
    LET stm32 == unpack_header(img) IN
    IF stm32.error # "none" THEN [image |-> img, out |-> Raise(stm32.error)]
    ELSE IF stm32.magic # "STM2" THEN [image |-> img, out |-> Ret(-1)]
    ELSE IF key_algorithm(key).kind = "raise"
         THEN [image |-> img, out |-> key_algorithm(key)]
    ELSE LET hdr == [stm32 EXCEPT !.ecdsa_pubkey = get_raw_pubkey(key),
                                  !.ecdsa_algo = key_algorithm(key).ret,
                                  !.option_flags = 0]
             packed == repack_header(img, hdr)
             sha == SHA256(SliceFrom(packed, DigestStart))
             spliced == Splice(packed, SignatureStart, SignatureEnd, Sign(key, sha))
         IN  \* verify_signature(image, key) is then called and its result
             \* dropped; LOG.debug prints the stale stm32['signature']
             [image |-> spliced, out |-> Ret(0)]

----------------------------------------------------------------------------
(* stm32-sign-pkcs11.py *)

\* ECC.import_key(encode_ec_public_key(pubkey)) and its X||Y point
pkcs11_get_raw_pubkey(pubkey) == pubkey.Q

pkcs11_unpack_header(img) ==
    IF ByteLen(img) < HeaderSize THEN [error |-> "struct.error"]
    ELSE LET fields == StructUnpack(img)
         IN  [ error            |-> "none",
               magic            |-> fields[1],
               signature        |-> fields[2],
               checksum         |-> fields[3],
               hdr_version      |-> fields[4],
               length           |-> fields[5],
               entry_addr       |-> fields[6],
               load_addr        |-> fields[8],
               rollback_version |-> fields[10],
               option_flags     |-> fields[11],
               ecdsa_algo       |-> fields[12],
               ecdsa_pubkey     |-> fields[13] ]

\* (variant) the header is patched in place: the reserved words keep their bytes
pkcs11_repack_header_keep_reserved(img, stm32) ==
    << stm32.magic,
       stm32.signature,
       stm32.checksum,
       stm32.hdr_version,
       stm32.length,
       stm32.entry_addr,
       img[7],
       stm32.load_addr,
       img[9],
       stm32.rollback_version,
       stm32.option_flags,
       stm32.ecdsa_algo,
       stm32.ecdsa_pubkey,
       img[14],
       img[15] >> \o SubSeq(img, HeaderCells + 1, Len(img))

pkcs11_repack_header(img, stm32) ==
    << stm32.magic,
       stm32.signature,
       stm32.checksum,
       stm32.hdr_version,
       stm32.length,
       stm32.entry_addr,
       0,
       stm32.load_addr,
       0,
       stm32.rollback_version,
       stm32.option_flags,
       stm32.ecdsa_algo,
       stm32.ecdsa_pubkey,
       0,
       0 >> \o SubSeq(img, HeaderCells + 1, Len(img))

pkcs11_key_algorithm(pubkey) ==
    IF pubkey.curve \in p256_names THEN Ret(1)
    ELSE IF pubkey.curve \in brainpool_names THEN Ret(2)
    ELSE Raise("ValueError")

\* (variant) pkcs11_sign_image without the magic check
pkcs11_sign_entry_no_magic(img) ==
    LET stm32 == pkcs11_unpack_header(img) IN
    IF stm32.error # "none" THEN Raise(stm32.error) ELSE NoOutcome

\* pkcs11_sign_image up to the session: what it returns or raises before
\* pkcs11.lib() is reached, NoOutcome when it goes on to open the session
pkcs11_sign_entry(img) ==
    LET stm32 == pkcs11_unpack_header(img) IN
    IF stm32.error # "none" THEN Raise(stm32.error)
    ELSE IF stm32.magic # "STM2" THEN Ret(-1)
    ELSE NoOutcome

\* the body of the `with` block of pkcs11_sign_image; tk is what
\* session.get_key finds under the label (NoKey: nothing), tokenSigns
\* whether privkey.sign succeeds
pkcs11_sign_body(img, tk, tokenSigns) ==
    LET stm32 == pkcs11_unpack_header(img) IN
    IF tk = NoKey THEN [image |-> img, out |-> Raise("NoSuchKey")]
    ELSE IF pkcs11_key_algorithm(tk).kind = "raise"
         THEN [image |-> img, out |-> pkcs11_key_algorithm(tk)]
    ELSE LET hdr == [stm32 EXCEPT !.ecdsa_pubkey = pkcs11_get_raw_pubkey(tk),
                                  !.ecdsa_algo = pkcs11_key_algorithm(tk).ret,
                                  !.option_flags = 0]
             packed == pkcs11_repack_header(img, hdr)
             sha == SHA256(SliceFrom(packed, DigestStart))
         IN  IF tokenSigns
             THEN [image |-> Splice(packed, SignatureStart, SignatureEnd, Sign(tk, sha)),
                   out |-> Ret(0)]
             ELSE [image |-> packed, out |-> Raise("PKCS11Error")]

pkcs11_verify_entry(img) ==
    LET hdr == pkcs11_unpack_header(img) IN
    IF hdr.error # "none" THEN Raise(hdr.error) ELSE NoOutcome

\* the body of the `with` block of pkcs11_verify_signature
pkcs11_verify_body(img, tk) ==
    LET hdr == pkcs11_unpack_header(img) IN
    IF tk = NoKey THEN [out |-> Raise("NoSuchKey"), crypto |-> FALSE]
    ELSE LET sha == SHA256(SliceFrom(img, DigestStart)) IN
         IF Verifies(tk, sha, hdr.signature)
         THEN [out |-> Ret(0), crypto |-> TRUE]
         ELSE [out |-> Ret(2), crypto |-> TRUE]

\* token.open(...) as a context manager: the session it yields on entry,
\* and what becomes of the session when the block is left with outcome out
SessionEnter == "Open"
\* (variant) session.close() called at the end of the block, not by `with`
SessionExit_leak_on_raise(out) == IF out.kind = "raise" THEN "InUse" ELSE "Closed"
SessionExit(out) == "Closed"

----------------------------------------------------------------------------
(* Inputs *)

Magics == {"STM2", "STM1"}
StaleSigs == {ZeroSig}
PubCells == {0, 11}
Bytes == {0, 1}

\* checksum, length, entry_addr, load_addr
PassThrough == { <<1, 2, 3, 4>>, <<5, 6, 7, 8>> }
\* the words at 0x48 and 0x60
Versions == {1, 2}
Rollbacks == {0, 1}
\* reserved1, reserved2, padding, binding
Reserved ==
    { [i \in 1..4 |-> IF i \in S THEN 1 ELSE 0] :
        S \in { {}, {1}, {2}, {3}, {4}, {1, 2, 3, 4} } }
OptionFlags == {0, 1}
Algos == {0, 2}

Payloads == UNION { [1..n -> Bytes] : n \in 0..MaxPayload }

Headers ==
    { <<m, s, w[1], v, w[2], w[3], r[1], w[4], r[2], rb, o, a, p, r[3], r[4]>> :
        m \in Magics, s \in StaleSigs, w \in PassThrough, v \in Versions,
        rb \in Rollbacks, r \in Reserved, o \in OptionFlags, a \in Algos,
        p \in PubCells }

\* buffers of 256 bytes or more
FullImages == { h \o pl : h \in Headers, pl \in Payloads }

\* buffers cut short of 256 bytes
ShortImages ==
    LET base == <<"STM2", ZeroSig, 0, 0, 0, 0, 0, 0, 0, 0, 0, 0, 0, 0, 0>>
    IN  { SubSeq(base, 1, n) : n \in 0..(HeaderCells - 1) }

Images == FullImages \cup ShortImages

----------------------------------------------------------------------------
(* The caller (main) *)

\* main catches OSError only, around the verify call
main_catches(exc) == exc = "OSError"

Init ==
    /\ image \in Images
    /\ pre = image
    /\ call = NoCall
    /\ crypto = FALSE
    /\ signed = [st |-> "raw", by |-> "none", Q |-> 0]
    /\ pc = "idle"
    /\ session = "None"

\* main: sign_image(data, key)
SignImage(key) ==
    /\ pc = "idle"
    /\ LET r == sign_image(image, key) IN
        /\ image' = r.image
        /\ pre' = image
        /\ call' = [tool |-> "local", op |-> "sign", key |-> key, out |-> r.out]
        /\ signed' = IF r.out = Ret(0)
                     THEN [st |-> "signed", by |-> "local", Q |-> key.Q]
                     ELSE signed
    /\ crypto' = FALSE
    /\ UNCHANGED <<pc, session>>

\* main: verify_signature(stm32_file.read(), key)
VerifySignature(key) ==
    /\ pc = "idle"
    /\ LET r == verify_signature(image, key) IN
        /\ call' = [tool |-> "local", op |-> "verify", key |-> key, out |-> r.out]
        /\ crypto' = r.crypto
    /\ pre' = image
    /\ UNCHANGED <<image, signed, pc, session>>

\* one payload byte of a signed image is changed between signing and verifying
TamperPayload(i, b) ==
    /\ pc = "idle"
    /\ signed.st = "signed"
    /\ i \in (HeaderCells + 1)..Len(image)
    /\ b # image[i]
    /\ image' = [image EXCEPT ![i] = b]
    /\ signed' = [signed EXCEPT !.st = "tampered"]
    /\ pre' = image
    /\ call' = [tool |-> "caller", op |-> "tamper", key |-> NoKey, out |-> NoOutcome]
    /\ crypto' = FALSE
    /\ UNCHANGED <<pc, session>>

\* main: pkcs11_sign_image(data, ...), up to pkcs11.lib()
Pkcs11SignCall ==
    /\ pc = "idle"
    /\ LET e == pkcs11_sign_entry(image) IN
        /\ call' = [tool |-> "pkcs11", op |-> "sign", key |-> NoKey, out |-> e]
        /\ pc' = IF e = NoOutcome THEN "open" ELSE "idle"
    /\ pre' = image
    /\ crypto' = FALSE
    /\ UNCHANGED <<image, signed, session>>

\* main: pkcs11_verify_signature(stm32_file.read(), ...), up to pkcs11.lib()
Pkcs11VerifyCall ==
    /\ pc = "idle"
    /\ LET e == pkcs11_verify_entry(image) IN
        /\ call' = [tool |-> "pkcs11", op |-> "verify", key |-> NoKey, out |-> e]
        /\ pc' = IF e = NoOutcome THEN "open" ELSE "idle"
    /\ pre' = image
    /\ crypto' = FALSE
    /\ UNCHANGED <<image, signed, session>>

\* token.open(rw=True, user_pin=pin) yields a session
TokenOpen ==
    /\ pc = "open"
    /\ session' = SessionEnter
    /\ pc' = "body"
    /\ UNCHANGED <<image, pre, call, crypto, signed>>

\* pkcs11.lib(), lib.get_token() or token.open() raises: no session exists
TokenOpenFails ==
    /\ pc = "open"
    /\ call' = [call EXCEPT !.out = Raise("PKCS11Error")]
    /\ pc' = "idle"
    /\ UNCHANGED <<image, pre, crypto, signed, session>>

\* the `with` block of pkcs11_sign_image runs
Pkcs11SignBody(tk, tokenSigns) ==
    /\ pc = "body"
    /\ call.op = "sign"
    /\ LET r == pkcs11_sign_body(image, tk, tokenSigns) IN
        /\ image' = r.image
        /\ call' = [call EXCEPT !.key = tk, !.out = r.out]
        /\ signed' = IF r.out = Ret(0)
                     THEN [st |-> "signed", by |-> "pkcs11", Q |-> tk.Q]
                     ELSE IF r.image # image
                     THEN [st |-> "raw", by |-> "none", Q |-> 0]
                     ELSE signed
    /\ session' = "InUse"
    /\ pc' = "exit"
    /\ UNCHANGED <<pre, crypto>>

\* the `with` block of pkcs11_verify_signature runs
Pkcs11VerifyBody(tk) ==
    /\ pc = "body"
    /\ call.op = "verify"
    /\ LET r == pkcs11_verify_body(image, tk) IN
        /\ call' = [call EXCEPT !.key = tk, !.out = r.out]
        /\ crypto' = r.crypto
    /\ session' = "InUse"
    /\ pc' = "exit"
    /\ UNCHANGED <<image, pre, signed>>

\* the `with` block is left (return, return 2 or exception) and control
\* is back in main
WithExit ==
    /\ pc = "exit"
    /\ session' = SessionExit(call.out)
    /\ pc' = "idle"
    /\ UNCHANGED <<image, pre, call, crypto, signed>>

Next ==
    \/ \E key \in Keys : SignImage(key)
    \/ \E key \in Keys : VerifySignature(key)
    \/ \E i \in 1..(HeaderCells + MaxPayload), b \in Bytes : TamperPayload(i, b)
    \/ Pkcs11SignCall
    \/ Pkcs11VerifyCall
    \/ TokenOpen
    \/ TokenOpenFails
    \/ \E tk \in Keys \cup {NoKey}, tokenSigns \in BOOLEAN : Pkcs11SignBody(tk, tokenSigns)
    \/ \E tk \in Keys \cup {NoKey} : Pkcs11VerifyBody(tk)
    \/ WithExit

Spec == Init /\ [][Next]_vars

----------------------------------------------------------------------------
(* The header codec on its own: a header is decoded and encoded again *)

InitCodec ==
    /\ image \in FullImages
    /\ pre = image
    /\ call = NoCall
    /\ crypto = FALSE
    /\ signed = [st |-> "raw", by |-> "none", Q |-> 0]
    /\ pc = "idle"
    /\ session = "None"

Recode ==
    /\ image' = repack_header(image, unpack_header(image))
    /\ pre' = image
    /\ call' = [tool |-> "local", op |-> "recode", key |-> NoKey, out |-> Ret(0)]
    /\ UNCHANGED <<crypto, signed, pc, session>>

Pkcs11Recode ==
    /\ image' = pkcs11_repack_header(image, pkcs11_unpack_header(image))
    /\ pre' = image
    /\ call' = [tool |-> "pkcs11", op |-> "recode", key |-> NoKey, out |-> Ret(0)]
    /\ UNCHANGED <<crypto, signed, pc, session>>

NextCodec ==
    \/ Recode
    \/ Pkcs11Recode

SpecCodec == InitCodec /\ [][NextCodec]_vars

----------------------------------------------------------------------------
(* Properties *)

\* the header field at byte offset off, per the layout table
Field(img, off) == img[CellAt(off)]
\* the bytes of the buffer from offset off to its end
BytesFrom(img, off) == SubSeq(img, CellAt(off), Len(img))
PayloadOf(img) == SubSeq(img, HeaderCells + 1, Len(img))
FullBuffer(img) == ByteLen(img) >= HeaderSize
SignReturned0 == call.op = "sign" /\ call.out = Ret(0)

\* C1: sign-then-verify with a local key. When sign_image has returned 0 for
\* key K, verify_signature on the resulting buffer with K yields 0 (Valid);
\* and a verify_signature call made with K on a buffer left by such a sign
\* returned 0.
C1_SignThenVerify ==
    /\ (call.tool = "local" /\ SignReturned0)
          => verify_signature(image, call.key).out = Ret(0)
    /\ (call.tool = "local" /\ call.op = "verify" /\ signed.st = "signed"
          /\ signed.by = "local" /\ call.key.Q = signed.Q)
          => call.out = Ret(0)

C1_Witness ==
    /\ call.tool = "local" /\ call.op = "verify" /\ call.out = Ret(0)
    /\ signed.st = "signed" /\ signed.by = "local" /\ call.key.Q = signed.Q
    /\ Len(image) > HeaderCells

\* C2: tamper sensitivity. Once one payload byte of a signed image has been
\* changed, a completed verify with the signing key K (either tool) returns
\* 2 (Invalid), and verify_signature / the pkcs11 verify block evaluated on
\* that buffer with K yield 2.
C2_TamperDetected ==
    /\ (pc = "idle" /\ signed.st = "tampered" /\ call.op = "verify"
          /\ call.key.Q = signed.Q)
          => call.out = Ret(2)
    /\ signed.st = "tampered" =>
          \A k \in Keys : k.Q = signed.Q =>
              /\ verify_signature(image, k).out = Ret(2)
              /\ pkcs11_verify_body(image, k).out = Ret(2)

C2_Witness ==
    /\ pc = "idle" /\ signed.st = "tampered" /\ call.op = "verify"
    /\ call.tool = "pkcs11" /\ call.key.Q = signed.Q /\ call.out = Ret(2)
    /\ verify_signature(image, call.key).out = Ret(2)

\* C3: unsupported curve on sign. A sign call (either tool) on an STM2 image
\* with a key whose curve is not P-256 ends in the ValueError raised by
\* key_algorithm, and the buffer is identical to what it was before the call.
C3_UnsupportedCurveNoWrite ==
    (call.op = "sign" /\ call.key # NoKey /\ call.key.curve \notin p256_names
        /\ FullBuffer(pre) /\ Field(pre, 0) = "STM2")
    => (call.out = Raise("ValueError") /\ image = pre)

C3_Witness ==
    /\ call.tool = "local" /\ call.op = "sign" /\ call.key.curve = P384
    /\ FullBuffer(pre) /\ Field(pre, 0) = "STM2" /\ Field(pre, 100) = 1
    /\ call.out = Raise("ValueError") /\ image = pre

\* C4: bad magic on sign. A sign call (either tool) on a buffer of 256 bytes
\* or more whose magic is not STM2 returns -1 and leaves the buffer as it
\* was; the pkcs11 call never gets to opening a session.
C4_BadMagicRejected ==
    (call.op = "sign" /\ FullBuffer(pre) /\ Field(pre, 0) # "STM2")
    => (call.out = Ret(-1) /\ image = pre /\ pc = "idle")

C4_Witness ==
    /\ call.tool = "pkcs11" /\ call.op = "sign" /\ call.out = Ret(-1)
    /\ Field(pre, 0) # "STM2" /\ image = pre /\ session = "None"

\* C5: key-mismatch short-circuit. verify_signature on a header whose
\* embedded key differs from the supplied key's raw point returns 1 without
\* verifier.verify having run; pkcs11_verify_signature returns only 0 or 2.
C5_KeyMismatchShortCircuit ==
    /\ (call.tool = "local" /\ call.op = "verify" /\ FullBuffer(pre)
          /\ Field(pre, 108) # call.key.Q)
          => (call.out = Ret(1) /\ crypto = FALSE)
    /\ (call.tool = "pkcs11" /\ call.op = "verify" /\ call.out.kind = "return")
          => call.out.ret \in {0, 2}

C5_Witness ==
    /\ call.tool = "local" /\ call.op = "verify" /\ call.out = Ret(1)
    /\ crypto = FALSE
    /\ signed.st = "signed" /\ signed.Q # call.key.Q

\* C6: header round trip. A header with its reserved fields zero, decoded by
\* unpack_header and encoded again by repack_header (of either script),
\* comes back with every field of the layout as it was, the words at 0x48
\* and 0x60 included.
C6_HeaderRoundTrip ==
    (call.op = "recode" /\ Field(pre, 84) = 0 /\ Field(pre, 92) = 0
        /\ Field(pre, 172) = 0 /\ Field(pre, 255) = 0)
    => image = pre

\* C7: session release. The session is Open exactly while the `with` block
\* is about to run, InUse once it has run, and is closed (or was never
\* opened) whenever control is with the caller or before token.open.
C7_SessionReleased ==
    /\ pc \in {"idle", "open"} => session \in {"None", "Closed"}
    /\ pc = "body" => session = "Open"
    /\ pc = "exit" => session = "InUse"

C7_Witness ==
    /\ pc = "idle" /\ session = "Closed"
    /\ call.tool = "pkcs11" /\ call.op = "sign" /\ call.out = Raise("PKCS11Error")
    /\ image # pre

\* C8: sign postcondition. After a sign that returned 0 (either tool):
\* option_flags = 0, ecdsa_algo = 1, ecdsa_pubkey = the signer's raw key,
\* reserved regions zero, and bytes [0x04, 0x44) hold the signer's signature
\* over SHA-256 of bytes [0x48, end) of the buffer as it now is.
C8_SignPostcondition ==
    SignReturned0 =>
        /\ Field(image, 100) = 0
        /\ Field(image, 104) = 1
        /\ Field(image, 108) = call.key.Q
        /\ Field(image, 84) = 0
        /\ Field(image, 92) = 0
        /\ Field(image, 172) = 0
        /\ Field(image, 255) = 0
        /\ Field(image, 4) = [Q |-> call.key.Q,
                              digest |-> [sha256 |-> BytesFrom(image, 72)]]

\* re-signing an already signed image with another key
C8_Witness ==
    /\ SignReturned0 /\ call.tool = "pkcs11"
    /\ Field(pre, 104) = 1 /\ Field(pre, 4) # ZeroSig
    /\ Field(pre, 108) # call.key.Q
    /\ Field(pre, 72) # Field(pre, 96)

\* C9: error propagation. No failure of a sign or verify call (short
\* buffer, bad magic, unsupported curve, key mismatch, invalid signature)
\* leaves the call as an exception that main does not catch.
C9_NoEscapingException ==
    (call.out.kind = "raise" /\ call.out.exc \in {"struct.error", "ValueError"})
    => main_catches(call.out.exc)

\* C10: sign frame. A sign that returned 0 (either tool) leaves the length,
\* the payload, and magic, checksum, header_version, image_length,
\* entry_address, load_address and rollback_version as they were.
C10_SignFrame ==
    SignReturned0 =>
        /\ Len(image) = Len(pre)
        /\ PayloadOf(image) = PayloadOf(pre)
        /\ \A off \in {0, 68, 72, 76, 80, 88, 96} : Field(image, off) = Field(pre, off)

====
